---- MODULE Spec2Model ----
(***************************************************************************)
(* Model of core::libclang::SourceIndex (SourceIndex.cpp): the cache of    *)
(* libclang translation units keyed by file name, together with the        *)
(* libclang calls (parse / reparse / dispose) each operation issues.       *)
(***************************************************************************)
EXTENDS Integers, Sequences, FiniteSets, TLC

(* ---------------------------------------------------------------------- *)
(* Bounds of the model                                                     *)
(* ---------------------------------------------------------------------- *)

\* number of distinct CXTranslationUnit handles libclang hands out before
\* every further parseTranslationUnit returns NULL
MaxUnits == 3

\* file modification times range over 1..MaxTime
MaxTime == 2

\* number of libclang dispose calls that may throw in one run
MaxFaults == 1

\* number of times the destructor may be invoked on the object
MaxDestroys == 2

\* number of times the completion popup may be shown
MaxShows == 3

(* ---------------------------------------------------------------------- *)
(* Value domains                                                           *)
(* ---------------------------------------------------------------------- *)

Paths == {"a.cpp", "b.cpp"}

\* the files whose compile arguments and modification time change while the
\* index is in use; the other files keep the arguments and the time they have
Edited == {"a.cpp"}

\* argument vectors the compilation database can return; the last two are
\* reorderings of each other, the first is the "not indexable" answer
ArgLists == {<<>>, <<"-I", "-D">>, <<"-D", "-I">>}

Times == 1..MaxTime

\* what FilePath::lastWriteTime() yields for a file that cannot be stat'ed
NoTime == 0

\* the values FilePath::lastWriteTime() can yield
FileTimeValues == Times \cup {NoTime}

VerboseLevels == {0, 1, 2}

\* CXTranslationUnit handles; NULL is the null pointer
NULL == 0
Handles == 1..MaxUnits

VARIABLES
    verbose_,           \* SourceIndex::verbose_
    hasCompileArgsFn,   \* compilationDB_.compileArgsForTranslationUnit is set
    dbArgs,             \* what the compilation database answers per file
    fileTimes,          \* FilePath::lastWriteTime() per file
    translationUnits_,  \* SourceIndex::translationUnits_ (std::map)
    nextTu,             \* next handle libclang will hand out
    parsedFor,          \* libclang: file each handle was parsed for ("" = never)
    disposeCount,       \* libclang: number of dispose calls per handle
    lastOp,             \* the last operation, its result and its libclang calls
    teardown,           \* index_, the destructor's progress, whether the
                        \* last operation let an exception escape, and the
                        \* session's s_pRSourceIndex with what rSourceIndex()
                        \* constructed and returned
    other,              \* a second SourceIndex, given the same calls
    popup               \* the console's CompletionPopupPanel and the native
                        \* preview handlers registered with Event

vars == <<verbose_, hasCompileArgsFn, dbArgs, fileTimes, translationUnits_,
          nextTu, parsedFor, disposeCount, lastOp, teardown, other, popup>>

(* ---------------------------------------------------------------------- *)
(* libclang calls                                                          *)
(* ---------------------------------------------------------------------- *)

ParseCall(file, args, tu) ==
    [fn |-> "parse", file |-> file, args |-> args, tu |-> tu]

ReparseCall(tu, ret) ==
    [fn |-> "reparse", file |-> "", args |-> <<>>, tu |-> tu, ret |-> ret]

DisposeCall(tu) ==
    [fn |-> "dispose", file |-> "", args |-> <<>>, tu |-> tu]

\* clang().disposeIndex(index)
DisposeIndexCall(index) ==
    [fn |-> "disposeIndex", file |-> "", args |-> <<>>, tu |-> index]

\* effect of a sequence of libclang calls on libclang's own bookkeeping
RECURSIVE ApplyCalls(_, _)
ApplyCalls(st, calls) ==
    IF calls = <<>> THEN st
    ELSE LET c == Head(calls)
             st1 == IF c.fn = "parse" /\ c.tu # NULL
                      THEN [st EXCEPT !.parsedFor[c.tu] = c.file]
                    ELSE IF c.fn = "dispose" /\ c.tu \in Handles
                      THEN [st EXCEPT !.disposeCount[c.tu] = @ + 1]
                    ELSE st
         IN ApplyCalls(st1, Tail(calls))

(* ---------------------------------------------------------------------- *)
(* SourceIndex                                                             *)
(* ---------------------------------------------------------------------- *)

StoredTranslationUnit(compileArgs, lastWriteTime, tu) ==
    [compileArgs |-> compileArgs, lastWriteTime |-> lastWriteTime, tu |-> tu]

\* mutant: erase(begin()) instead of erase(key)
MapErase_Begin(m, key) ==
    LET first == CHOOSE k \in DOMAIN m : TRUE
    IN [k \in (DOMAIN m) \ {first} |-> m[k]]

\* std::map::erase(key)
MapErase(m, key) == [k \in (DOMAIN m) \ {key} |-> m[k]]

\* std::map::operator[](key) = value
MapPut(m, key, value) ==
    [k \in (DOMAIN m) \cup {key} |-> IF k = key THEN value ELSE m[k]]

\* result of an operation: the new map, the libclang calls in order, and the
\* CXTranslationUnit wrapped by the returned TranslationUnit (NULL = empty)
Outcome(tus, calls, ret) == [tus |-> tus, calls |-> calls, ret |-> ret]

\* mutant: the unit is disposed but its record stays in the map
RemoveTranslationUnit_NoErase(tus, filename) ==
    IF filename \in DOMAIN tus
      THEN Outcome(tus, <<DisposeCall(tus[filename].tu)>>, NULL)
      ELSE Outcome(tus, <<>>, NULL)

\* mutant: the record is erased without disposing its unit
RemoveTranslationUnit_NoDispose(tus, filename) ==
    IF filename \in DOMAIN tus
      THEN Outcome(MapErase(tus, filename), <<>>, NULL)
      ELSE Outcome(tus, <<>>, NULL)

\* mutant: clear() instead of erase(key)
RemoveTranslationUnit_Clears(tus, filename) ==
    IF filename \in DOMAIN tus
      THEN Outcome([k \in {} |-> NULL],
                   <<DisposeCall(tus[filename].tu)>>, NULL)
      ELSE Outcome(tus, <<>>, NULL)

RemoveTranslationUnit(tus, filename) ==
    IF filename \in DOMAIN tus
      THEN Outcome(MapErase(tus, filename),
                   <<DisposeCall(tus[filename].tu)>>, NULL)
      ELSE Outcome(tus, <<>>, NULL)

\* std::map iterates in key order
PathOrder == <<"a.cpp", "b.cpp">>

EmptyMap == [k \in {} |-> NULL]

\* the loop of removeAllTranslationUnits: one dispose per record, in key order
RECURSIVE DisposeEach(_, _)
DisposeEach(tus, i) ==
    IF i > Len(PathOrder) THEN <<>>
    ELSE (IF PathOrder[i] \in DOMAIN tus
            THEN <<DisposeCall(tus[PathOrder[i]].tu)>>
            ELSE <<>>) \o DisposeEach(tus, i + 1)

\* mutant: the units are disposed but translationUnits_.clear() is missing
RemoveAllTranslationUnits_NoClear(tus) ==
    Outcome(tus, DisposeEach(tus, 1), NULL)

RemoveAllTranslationUnits(tus) ==
    Outcome(EmptyMap, DisposeEach(tus, 1), NULL)

\* lines 146-150: the compilation database is consulted only when the
\* callback is set; an empty answer returns an empty TranslationUnit
CompileArgs(filename) ==
    IF hasCompileArgsFn THEN dbArgs[filename] ELSE <<>>

\* mutant: an empty argument vector returns early, callback or not
NotIndexable_EmptyArgs(args) == args = <<>>

\* mutant: the empty answer is honoured only when no callback is set
NotIndexable_WrongGuard(args) == ~ hasCompileArgsFn /\ args = <<>>

NotIndexable(args) == hasCompileArgsFn /\ args = <<>>

\* mutant: the negation of alwaysReparse is lost
UpToDate_DroppedNot(alwaysReparse, args, lastWriteTime, stored) ==
    /\ alwaysReparse
    /\ args = stored.compileArgs
    /\ lastWriteTime = stored.lastWriteTime

\* mutant: alwaysReparse is not consulted
UpToDate_IgnoresForce(alwaysReparse, args, lastWriteTime, stored) ==
    /\ args = stored.compileArgs
    /\ lastWriteTime = stored.lastWriteTime

\* mutant: a file that is not newer than the record counts as up to date
UpToDate_NotNewer(alwaysReparse, args, lastWriteTime, stored) ==
    /\ ~ alwaysReparse
    /\ args = stored.compileArgs
    /\ lastWriteTime <= stored.lastWriteTime

\* "already up to date?"
UpToDate(alwaysReparse, args, lastWriteTime, stored) ==
    /\ ~ alwaysReparse
    /\ args = stored.compileArgs
    /\ lastWriteTime = stored.lastWriteTime

\* mutant: the argument vectors are compared as sets of flags
JustNeedsReparse_Unordered(args, stored) ==
    /\ Len(args) = Len(stored.compileArgs)
    /\ {args[i] : i \in 1..Len(args)}
         = {stored.compileArgs[i] : i \in 1..Len(stored.compileArgs)}

\* "just needs reparse?"
JustNeedsReparse(args, stored) == args = stored.compileArgs

\* "add verbose output if requested": args.push_back("-v")
VerboseArgs(args) == IF verbose_ >= 2 THEN Append(args, "-v") ELSE args

\* mutant: the new unit is parsed before the old one is removed
FullBuild_ParseFirst(tus, filename, args, lastWriteTime, before, tu) ==
    LET removed == RemoveTranslationUnit(tus, filename)
        args2 == VerboseArgs(args)
        calls == before \o <<ParseCall(filename, args2, tu)>> \o removed.calls
    IN IF tu # NULL
         THEN Outcome(MapPut(removed.tus, filename,
                             StoredTranslationUnit(args2, lastWriteTime, tu)),
                      calls, tu)
         ELSE Outcome(removed.tus, calls, NULL)

\* mutant: when parse fails the map is left as it was before the removal
FullBuild_KeepsOnFailure(tus, filename, args, lastWriteTime, before, tu) ==
    LET removed == RemoveTranslationUnit(tus, filename)
        args2 == VerboseArgs(args)
        calls == before \o removed.calls \o <<ParseCall(filename, args2, tu)>>
    IN IF tu # NULL
         THEN Outcome(MapPut(removed.tus, filename,
                             StoredTranslationUnit(args2, lastWriteTime, tu)),
                      calls, tu)
         ELSE Outcome(tus, calls, NULL)

\* the tail of getTranslationUnit, from removeTranslationUnit(filename) on;
\* before holds the libclang calls already issued, tu is what
\* parseTranslationUnit returns
FullBuild(tus, filename, args, lastWriteTime, before, tu) ==
    LET removed == RemoveTranslationUnit(tus, filename)
        args2 == VerboseArgs(args)
        calls == before \o removed.calls \o <<ParseCall(filename, args2, tu)>>
    IN IF tu # NULL
         THEN Outcome(MapPut(removed.tus, filename,
                             StoredTranslationUnit(args2, lastWriteTime, tu)),
                      calls, tu)
         ELSE Outcome(removed.tus, calls, NULL)

\* mutant: after a failed reparse and the rebuild, the unit the record held
\* before is the one returned
Reparse_ReturnsOldUnit(tus, filename, args, lastWriteTime, reparseRet, tu) ==
    LET stored == tus[filename]
        call == ReparseCall(stored.tu, reparseRet)
        built == FullBuild(tus, filename, args, lastWriteTime, <<call>>, tu)
    IN IF reparseRet = 0
         THEN Outcome([tus EXCEPT ![filename].lastWriteTime = lastWriteTime],
                      <<call>>, stored.tu)
         ELSE Outcome(built.tus, built.calls, stored.tu)

\* mutant: a successful reparse leaves the stored write time as it was
Reparse_KeepsOldTime(tus, filename, args, lastWriteTime, reparseRet, tu) ==
    LET stored == tus[filename]
        call == ReparseCall(stored.tu, reparseRet)
    IN IF reparseRet = 0
         THEN Outcome(tus, <<call>>, stored.tu)
         ELSE FullBuild(tus, filename, args, lastWriteTime, <<call>>, tu)

\* mutant: a failed reparse returns an empty TranslationUnit at once
Reparse_ReturnsOnFailure(tus, filename, args, lastWriteTime, reparseRet, tu) ==
    LET stored == tus[filename]
        call == ReparseCall(stored.tu, reparseRet)
    IN IF reparseRet = 0
         THEN Outcome([tus EXCEPT ![filename].lastWriteTime = lastWriteTime],
                      <<call>>, stored.tu)
         ELSE Outcome(tus, <<call>>, NULL)

\* the "just needs reparse" branch: reparseTranslationUnit on the stored unit;
\* on success the stored write time is updated and the unit returned, on
\* failure the error is logged and control falls out of the if to the full
\* build
Reparse(tus, filename, args, lastWriteTime, reparseRet, tu) ==
    LET stored == tus[filename]
        call == ReparseCall(stored.tu, reparseRet)
    IN IF reparseRet = 0
         THEN Outcome([tus EXCEPT ![filename].lastWriteTime = lastWriteTime],
                      <<call>>, stored.tu)
         ELSE FullBuild(tus, filename, args, lastWriteTime, <<call>>, tu)

\* mutant: a file that cannot be stat'ed returns an empty TranslationUnit
GetTranslationUnit_StatShortCircuit(tus, filename, alwaysReparse, reparseRet, tu) ==
    LET args == CompileArgs(filename)
        lastWriteTime == fileTimes[filename]
    IN IF NotIndexable(args) \/ lastWriteTime = NoTime
         THEN Outcome(tus, <<>>, NULL)
       ELSE IF filename \in DOMAIN tus
         THEN LET stored == tus[filename]
              IN IF UpToDate(alwaysReparse, args, lastWriteTime, stored)
                   THEN Outcome(tus, <<>>, stored.tu)
                 ELSE IF JustNeedsReparse(args, stored)
                   THEN Reparse(tus, filename, args, lastWriteTime,
                                reparseRet, tu)
                 ELSE FullBuild(tus, filename, args, lastWriteTime, <<>>, tu)
       ELSE FullBuild(tus, filename, args, lastWriteTime, <<>>, tu)

\* reparseRet is what reparseTranslationUnit returns (0 = success), tu what
\* parseTranslationUnit returns (NULL = failure); each is used only if the
\* call is reached
GetTranslationUnit(tus, filename, alwaysReparse, reparseRet, tu) ==
    LET args == CompileArgs(filename)
        lastWriteTime == fileTimes[filename]
    IN IF NotIndexable(args) THEN Outcome(tus, <<>>, NULL)
       ELSE IF filename \in DOMAIN tus
         THEN LET stored == tus[filename]
              IN IF UpToDate(alwaysReparse, args, lastWriteTime, stored)
                   THEN Outcome(tus, <<>>, stored.tu)
                 ELSE IF JustNeedsReparse(args, stored)
                   THEN Reparse(tus, filename, args, lastWriteTime,
                                reparseRet, tu)
                 ELSE FullBuild(tus, filename, args, lastWriteTime, <<>>, tu)
       ELSE FullBuild(tus, filename, args, lastWriteTime, <<>>, tu)

\* mutant: the check for an existing record is missing
PrimeEditorTranslationUnit_Always(tus, filename, reparseRet, tu) ==
    GetTranslationUnit(tus, filename, FALSE, reparseRet, tu)

\* primeEditorTranslationUnit
PrimeEditorTranslationUnit(tus, filename, reparseRet, tu) ==
    IF filename \notin DOMAIN tus
      THEN GetTranslationUnit(tus, filename, FALSE, reparseRet, tu)
      ELSE Outcome(tus, <<>>, NULL)

\* mutant: the check for an existing record is missing
ReprimeEditorTranslationUnit_Always(tus, filename, reparseRet, tu) ==
    GetTranslationUnit(tus, filename, FALSE, reparseRet, tu)

\* reprimeEditorTranslationUnit
ReprimeEditorTranslationUnit(tus, filename, reparseRet, tu) ==
    IF filename \in DOMAIN tus
      THEN GetTranslationUnit(tus, filename, FALSE, reparseRet, tu)
      ELSE Outcome(tus, <<>>, NULL)

(* ---------------------------------------------------------------------- *)
(* State machine                                                           *)
(* ---------------------------------------------------------------------- *)

\* "no record" in the before field of lastOp
NoRecord == StoredTranslationUnit(<<>>, 0, NULL)

\* the record an operation on filename starts from
RecordOf(tus, filename) ==
    IF filename \in DOMAIN tus THEN tus[filename] ELSE NoRecord

Op(op, filename, alwaysReparse, out) ==
    [op |-> op, filename |-> filename, alwaysReparse |-> alwaysReparse,
     before |-> RecordOf(translationUnits_, filename),
     ret |-> out.ret, calls |-> out.calls]

NoOp == [op |-> "none", filename |-> "", alwaysReparse |-> FALSE,
         before |-> NoRecord, ret |-> NULL, calls |-> <<>>]

\* the CXIndex createIndex returned to the constructor
IndexHandle == 1

\* CompletionPopupPanel(): no registration, no list, not showing; the help
\* popup is a new, visible, hidden HelpInfoPopupPanel. active is the set of
\* registrations in Event's list of native preview handlers, op and prevOp
\* are the last two operations
PanelConstructed ==
    [handlerRegistration_ |-> NULL, active |-> {}, nextRegistration |-> 1,
     showing |-> FALSE, offscreen |-> FALSE, widget |-> "none",
     list_ |-> FALSE, help |-> [showing |-> FALSE, visible |-> TRUE],
     op |-> "none", prevOp |-> "none"]

\* a SourceIndex as the constructor leaves it, with the libclang state of its
\* units; turn says which of the two objects is called next, "none" that
\* there is one object only
Constructed(verbose, turn) ==
    [verbose_ |-> verbose, translationUnits_ |-> EmptyMap, nextTu |-> 1,
     parsedFor |-> [h \in Handles |-> ""],
     disposeCount |-> [h \in Handles |-> 0],
     lastOp |-> NoOp, turn |-> turn]

\* whose turn it is after a member function has run on one of two objects;
\* what the other object did before that is no longer looked at
AfterCall(o) ==
    IF o.turn = "lead" THEN [o EXCEPT !.turn = "handover", !.lastOp = NoOp]
    ELSE IF o.turn = "follow" THEN [o EXCEPT !.turn = "lead"]
    ELSE o

Init ==
    /\ verbose_ \in VerboseLevels
    /\ hasCompileArgsFn \in BOOLEAN
    /\ dbArgs \in IF hasCompileArgsFn
                   THEN {d \in [Paths -> ArgLists] :
                           \A f \in Paths \ Edited : d[f] = <<"-I", "-D">>}
                   ELSE {[f \in Paths |-> <<>>]}
    /\ fileTimes \in {t \in [Paths -> FileTimeValues] :
                       \A f \in Paths \ Edited : t[f] = 1}
    /\ translationUnits_ = EmptyMap
    /\ nextTu = 1
    /\ parsedFor = [h \in Handles |-> ""]
    /\ disposeCount = [h \in Handles |-> 0]
    /\ lastOp = NoOp
    /\ teardown = [index_ |-> IndexHandle, indexDisposeCount |-> 0,
                   destroyed |-> FALSE, raised |-> FALSE, faults |-> 0,
                   destroys |-> 0,
                   s_pRSourceIndex |-> NULL, constructed |-> 0,
                   instance |-> NULL, exited |-> FALSE]
    /\ other = Constructed(verbose_, "none")
    /\ popup = PanelConstructed

\* what the two libclang calls of one getTranslationUnit may return;
\* reparseTranslationUnit is reached only when the file has a record
ReparseRets(filename) ==
    IF filename \in DOMAIN translationUnits_ THEN {0, 1} ELSE {0}
ParseRets == IF nextTu <= MaxUnits THEN {nextTu, NULL} ELSE {NULL}

\* an operation with outcome out has run
Commit(op, filename, alwaysReparse, out) ==
    LET lib == ApplyCalls([parsedFor |-> parsedFor,
                           disposeCount |-> disposeCount], out.calls)
        parsed == \E i \in 1..Len(out.calls) :
                     out.calls[i].fn = "parse" /\ out.calls[i].tu # NULL
    IN /\ translationUnits_' = out.tus
       /\ parsedFor' = lib.parsedFor
       /\ disposeCount' = lib.disposeCount
       /\ nextTu' = IF parsed THEN nextTu + 1 ELSE nextTu
       /\ lastOp' = Op(op, filename, alwaysReparse, out)
       /\ teardown' = [teardown EXCEPT !.raised = FALSE]
       /\ other' = AfterCall(other)
       /\ UNCHANGED <<popup, verbose_, hasCompileArgsFn, dbArgs, fileTimes>>

Get(filename, alwaysReparse) ==
    \E reparseRet \in ReparseRets(filename), tu \in ParseRets :
        Commit("get", filename, alwaysReparse,
               GetTranslationUnit(translationUnits_, filename, alwaysReparse,
                                  reparseRet, tu))

Prime(filename) ==
    \E reparseRet \in ReparseRets(filename), tu \in ParseRets :
        Commit("prime", filename, FALSE,
               PrimeEditorTranslationUnit(translationUnits_, filename,
                                          reparseRet, tu))

Reprime(filename) ==
    \E reparseRet \in ReparseRets(filename), tu \in ParseRets :
        Commit("reprime", filename, FALSE,
               ReprimeEditorTranslationUnit(translationUnits_, filename,
                                            reparseRet, tu))

Remove(filename) ==
    Commit("remove", filename, FALSE,
           RemoveTranslationUnit(translationUnits_, filename))

RemoveAll ==
    Commit("removeAll", "", FALSE,
           RemoveAllTranslationUnits(translationUnits_))

\* the compilation database changes its answer for a file
SetCompileArgs(filename, args) ==
    /\ hasCompileArgsFn
    /\ dbArgs[filename] # args
    /\ dbArgs' = [dbArgs EXCEPT ![filename] = args]
    /\ lastOp' = NoOp
    /\ UNCHANGED <<popup, verbose_, hasCompileArgsFn, fileTimes, translationUnits_,
                   nextTu, parsedFor, disposeCount, teardown, other>>

\* the file is written, its modification time is set back, or it is removed
\* or made unreadable (NoTime)
TouchFile(filename, t) ==
    /\ fileTimes[filename] # t
    /\ fileTimes' = [fileTimes EXCEPT ![filename] = t]
    /\ lastOp' = NoOp
    /\ UNCHANGED <<popup, verbose_, hasCompileArgsFn, dbArgs, translationUnits_,
                   nextTu, parsedFor, disposeCount, teardown, other>>

\* the member functions of SourceIndex
CacheOps ==
    \/ \E f \in Paths, b \in BOOLEAN : Get(f, b)
    \/ \E f \in Paths : Prime(f)
    \/ \E f \in Paths : Reprime(f)
    \/ \E f \in Paths : Remove(f)
    \/ RemoveAll

Next ==
    \/ CacheOps
    \/ \E f \in Edited, a \in ArgLists : SetCompileArgs(f, a)
    \/ \E f \in Edited, t \in FileTimeValues : TouchFile(f, t)

Spec == Init /\ [][Next]_vars

(* ---------------------------------------------------------------------- *)
(* Teardown, with libclang dispose calls that may throw                    *)
(* ---------------------------------------------------------------------- *)

\* removeAllTranslationUnits when the k-th disposeTranslationUnit of its loop
\* throws: the loop is left there and clear() is not reached
RemoveAllTranslationUnitsThrowing(tus, k) ==
    Outcome(tus, SubSeq(DisposeEach(tus, 1), 1, k), NULL)

\* the exception leaves removeAllTranslationUnits, which has no handler
RemoveAllThrows(k) ==
    /\ ~ teardown.destroyed
    /\ teardown.faults < MaxFaults
    /\ k \in 1..Cardinality(DOMAIN translationUnits_)
    /\ LET out == RemoveAllTranslationUnitsThrowing(translationUnits_, k)
           lib == ApplyCalls([parsedFor |-> parsedFor,
                              disposeCount |-> disposeCount], out.calls)
       IN /\ translationUnits_' = out.tus
          /\ parsedFor' = lib.parsedFor
          /\ disposeCount' = lib.disposeCount
          /\ lastOp' = Op("removeAll", "", FALSE, out)
    /\ teardown' = [teardown EXCEPT !.raised = TRUE, !.faults = @ + 1]
    /\ UNCHANGED <<popup, verbose_, hasCompileArgsFn, dbArgs, fileTimes, nextTu,
                   other>>

\* mutant: the index is disposed before the translation units
Destructor_IndexFirst(tus, k, indexThrows) ==
    LET out == IF k = 0 THEN RemoveAllTranslationUnits(tus)
               ELSE RemoveAllTranslationUnitsThrowing(tus, k)
        disposed == teardown.index_ # NULL
    IN [tus |-> out.tus,
        calls |-> (IF disposed THEN <<DisposeIndexCall(teardown.index_)>>
                   ELSE <<>>) \o out.calls,
        ret |-> NULL, indexDisposed |-> disposed]

\* ~SourceIndex: removeAllTranslationUnits, then disposeIndex if index_ is not
\* NULL, all inside try / catch(...); k > 0 is the dispose of the loop that
\* throws, indexThrows says whether disposeIndex throws
Destructor(tus, k, indexThrows) ==
    LET out == IF k = 0 THEN RemoveAllTranslationUnits(tus)
               ELSE RemoveAllTranslationUnitsThrowing(tus, k)
        disposed == k = 0 /\ teardown.index_ # NULL
    IN [tus |-> out.tus,
        calls |-> out.calls \o (IF disposed
                                  THEN <<DisposeIndexCall(teardown.index_)>>
                                  ELSE <<>>),
        ret |-> NULL, indexDisposed |-> disposed]

\* what a second run of the destructor finds in translationUnits_, whose own
\* destructor has run by then: the map is empty if the first run cleared it;
\* if not, its nodes are freed memory, read either as no record or as the
\* records they held
MapSeenByDestructor ==
    IF teardown.destroyed THEN {translationUnits_, EmptyMap}
    ELSE {translationUnits_}

Destroy(k, indexThrows) ==
    /\ teardown.destroys < MaxDestroys
    /\ (k > 0 \/ indexThrows) => teardown.faults < MaxFaults
    /\ \E seen \in MapSeenByDestructor :
          /\ k \in 0..Cardinality(DOMAIN seen)
          /\ \E out \in {Destructor(seen, k, indexThrows)} :
             \E lib \in {ApplyCalls([parsedFor |-> parsedFor,
                                     disposeCount |-> disposeCount],
                                    out.calls)} :
                /\ translationUnits_' = out.tus
                /\ parsedFor' = lib.parsedFor
                /\ disposeCount' = lib.disposeCount
                /\ lastOp' = Op("destroy", "", FALSE, out)
                /\ teardown' = [teardown EXCEPT
                                   !.destroyed = TRUE,
                                   !.destroys = @ + 1,
                                   !.raised = FALSE,
                                   !.indexDisposeCount =
                                       IF out.indexDisposed THEN @ + 1 ELSE @,
                                   !.faults =
                                       IF \/ k > 0
                                          \/ out.indexDisposed /\ indexThrows
                                         THEN @ + 1 ELSE @]
    /\ UNCHANGED <<popup, verbose_, hasCompileArgsFn, dbArgs, fileTimes, nextTu,
                   other>>

\* every file is readable and indexable, and the compile arguments and the
\* files stay as they are at construction: neither removeAllTranslationUnits
\* nor the destructor looks at them
TeardownInit ==
    /\ Init
    /\ \A f \in Paths :
          /\ fileTimes[f] = 1
          /\ hasCompileArgsFn => dbArgs[f] = <<"-I", "-D">>

TeardownNext ==
    \/ ~ teardown.destroyed /\ CacheOps
    \/ \E k \in 1..Len(PathOrder) : RemoveAllThrows(k)
    \/ \E k \in 0..Len(PathOrder), indexThrows \in BOOLEAN :
          Destroy(k, indexThrows)

TeardownSpec == TeardownInit /\ [][TeardownNext]_vars

(* ---------------------------------------------------------------------- *)
(* Two SourceIndex objects that differ in verbose_ only, given the same     *)
(* calls, compilation database, files and libclang results                  *)
(* ---------------------------------------------------------------------- *)

\* the two call sequences got the same results from libclang where both made
\* the call
SameResults(calls1, calls2) ==
    \A i \in 1..Len(calls1), j \in 1..Len(calls2) :
        /\ (calls1[i].fn = "reparse" /\ calls2[j].fn = "reparse")
              => ((calls1[i].ret = 0) <=> (calls2[j].ret = 0))
        /\ (calls1[i].fn = "parse" /\ calls2[j].fn = "parse")
              => ((calls1[i].tu = NULL) <=> (calls2[j].tu = NULL))

\* the two calls made the same libclang calls on the same units and both
\* returned a unit or both returned none
SameDecisions(o1, o2) ==
    /\ Len(o1.calls) = Len(o2.calls)
    /\ \A i \in 1..Len(o1.calls) :
          /\ o1.calls[i].fn = o2.calls[i].fn
          /\ o1.calls[i].tu = o2.calls[i].tu
    /\ (o1.ret = NULL) <=> (o2.ret = NULL)

\* the comparison of the two objects ends with the first call on which they
\* differ
Comparable ==
    /\ other.turn = "lead"
    /\ lastOp.op # "none" => SameDecisions(lastOp, other.lastOp)

\* a second SourceIndex is constructed with another verbosity
ConstructOther(verbose) ==
    /\ other.turn = "none"
    /\ verbose > verbose_
    /\ other' = Constructed(verbose, "lead")
    /\ UNCHANGED <<popup, verbose_, hasCompileArgsFn, dbArgs, fileTimes,
                   translationUnits_, nextTu, parsedFor, disposeCount, lastOp,
                   teardown>>

\* a member function is called on the first of the two objects
Lead ==
    /\ Comparable
    /\ CacheOps

\* the caller turns to the second object
Handover ==
    /\ other.turn = "handover"
    /\ verbose_' = other.verbose_
    /\ translationUnits_' = other.translationUnits_
    /\ nextTu' = other.nextTu
    /\ parsedFor' = other.parsedFor
    /\ disposeCount' = other.disposeCount
    /\ lastOp' = other.lastOp
    /\ other' = [verbose_ |-> verbose_,
                 translationUnits_ |-> translationUnits_,
                 nextTu |-> nextTu, parsedFor |-> parsedFor,
                 disposeCount |-> disposeCount, lastOp |-> lastOp,
                 turn |-> "follow"]
    /\ UNCHANGED <<popup, hasCompileArgsFn, dbArgs, fileTimes, teardown>>

\* the same member function is called on it with the same arguments and the
\* same libclang results
Follow ==
    /\ other.turn = "follow"
    /\ CacheOps
    /\ lastOp'.op = other.lastOp.op
    /\ lastOp'.filename = other.lastOp.filename
    /\ lastOp'.alwaysReparse = other.lastOp.alwaysReparse
    /\ SameResults(lastOp'.calls, other.lastOp.calls)

\* the files change between calls; the compilation database keeps the
\* answers it has at construction
VerbosityNext ==
    \/ \E v \in VerboseLevels : ConstructOther(v)
    \/ Lead
    \/ Handover
    \/ Follow
    \/ /\ Comparable
       /\ \E f \in Edited, t \in FileTimeValues : TouchFile(f, t)

VerbositySpec == Init /\ [][VerbosityNext]_vars

(* ---------------------------------------------------------------------- *)
(* The session's SourceIndex: rSourceIndex() in RSourceIndex.cpp            *)
(* ---------------------------------------------------------------------- *)

\* the object operator new hands out when n objects were constructed before
NewRSourceIndex(n) == n + 1

\* rSourceIndex(): constructs the RSourceIndex if the pointer is NULL, and
\* returns what the pointer points to
RSourceIndexPointer(ptr, n) ==
    IF ptr = NULL THEN NewRSourceIndex(n) ELSE ptr

\* mutant: the index is held by value (or by an owning pointer) in a static,
\* so static destruction runs ~SourceIndex
DestroyedAtExit_Owned(ptr) == ptr # NULL

\* static destruction at shutdown: s_pRSourceIndex is a raw pointer, so the
\* object it points to is not destroyed
DestroyedAtExit(ptr) == FALSE

\* a call of rSourceIndex()
CallRSourceIndex ==
    /\ ~ teardown.exited
    /\ \E ptr \in {RSourceIndexPointer(teardown.s_pRSourceIndex,
                                       teardown.constructed)} :
          teardown' = [teardown EXCEPT
                          !.s_pRSourceIndex = ptr,
                          !.constructed =
                              IF teardown.s_pRSourceIndex = NULL
                                THEN @ + 1 ELSE @,
                          !.instance = ptr]
    /\ lastOp' = NoOp
    /\ UNCHANGED <<popup, verbose_, hasCompileArgsFn, dbArgs, fileTimes,
                   translationUnits_, nextTu, parsedFor, disposeCount, other>>

\* a member function is called on the object rSourceIndex() returned
UseRSourceIndex ==
    /\ ~ teardown.exited
    /\ teardown.instance # NULL
    /\ CacheOps

\* the session process exits: objects with static storage are destroyed
Exit ==
    /\ ~ teardown.exited
    /\ \E destroyed \in {DestroyedAtExit(teardown.s_pRSourceIndex)} :
       \E out \in {IF destroyed
                     THEN Destructor(translationUnits_, 0, FALSE)
                     ELSE [tus |-> translationUnits_, calls |-> <<>>,
                           ret |-> NULL, indexDisposed |-> FALSE]} :
       \E lib \in {ApplyCalls([parsedFor |-> parsedFor,
                               disposeCount |-> disposeCount], out.calls)} :
          /\ translationUnits_' = out.tus
          /\ parsedFor' = lib.parsedFor
          /\ disposeCount' = lib.disposeCount
          /\ lastOp' = Op(IF destroyed THEN "destroy" ELSE "exit", "", FALSE,
                          out)
          /\ teardown' = [teardown EXCEPT
                             !.exited = TRUE,
                             !.destroyed = destroyed,
                             !.destroys = IF destroyed THEN @ + 1 ELSE @,
                             !.indexDisposeCount =
                                 IF out.indexDisposed THEN @ + 1 ELSE @]
    /\ UNCHANGED <<popup, verbose_, hasCompileArgsFn, dbArgs, fileTimes, nextTu,
                   other>>

SingletonNext ==
    \/ CallRSourceIndex
    \/ UseRSourceIndex
    \/ Exit

SingletonSpec == TeardownInit /\ [][SingletonNext]_vars

(* ---------------------------------------------------------------------- *)
(* CompletionPopupPanel.java                                               *)
(* ---------------------------------------------------------------------- *)

\* HandlerRegistration.removeHandler(): the registration leaves Event's list;
\* nothing happens if it has left it before
RemoveHandler(active, registration) == active \ {registration}

\* mutant: the previous registration is not removed
RegisterNativeHandler_NoRemove(p) ==
    [p EXCEPT !.active = @ \cup {p.nextRegistration},
              !.handlerRegistration_ = p.nextRegistration,
              !.nextRegistration = @ + 1]

\* registerNativeHandler(handler_)
RegisterNativeHandler(p) ==
    LET removed == IF p.handlerRegistration_ # NULL
                     THEN RemoveHandler(p.active, p.handlerRegistration_)
                     ELSE p.active
    IN [p EXCEPT !.active = removed \cup {p.nextRegistration},
                 !.handlerRegistration_ = p.nextRegistration,
                 !.nextRegistration = @ + 1]

\* unregisterNativeHandler(): the field keeps the removed registration
UnregisterNativeHandler(p) ==
    IF p.handlerRegistration_ # NULL
      THEN [p EXCEPT !.active = RemoveHandler(@, p.handlerRegistration_)]
      ELSE p

\* list_.isAttached(): the list is in the panel's widget and the panel shows
ListIsAttached(p) == p.list_ /\ p.widget = "values" /\ p.showing

CompletionListIsOnScreen(p) == ListIsAttached(p) /\ ~ p.offscreen

\* resolveHelpPosition(setVisible): the help popup is shown and positioned
ResolveHelpPosition(p, setVisible) ==
    [p EXCEPT !.help = [showing |-> TRUE, visible |-> setVisible]]

\* the positions a PositionCallback (or none: "keep") can leave the panel at
Positions == {"keep", "onscreen", "offscreen"}

\* show(callback): register the handler, show the panel, then place or hide
\* the help popup
Show(p, position) ==
    LET registered == RegisterNativeHandler(p)
        shown == [registered EXCEPT
                     !.showing = TRUE,
                     !.offscreen = IF position = "keep" THEN @
                                   ELSE position = "offscreen"]
    IN IF CompletionListIsOnScreen(shown)
         THEN ResolveHelpPosition(shown, shown.help.visible)
         ELSE [shown EXCEPT !.help.showing = FALSE]

\* hide(): unregister, then PopupPanel.hide(), which returns at once when the
\* panel is not showing and otherwise fires the CloseEvent, whose handler
\* runs hideAll (unregistering once more and hiding the help popup)
Hide(p) ==
    LET unregistered == UnregisterNativeHandler(p)
    IN IF unregistered.showing
         THEN [UnregisterNativeHandler(unregistered) EXCEPT
                  !.showing = FALSE, !.help.showing = FALSE]
         ELSE unregistered

\* hideAll(): hide() and help_.hide()
HideAll(p) == [Hide(p) EXCEPT !.help.showing = FALSE]

\* setText(text): the panel's widget is a new HTML
SetText(p) == [p EXCEPT !.widget = "text"]

\* an operation of the panel has run
PanelStep(op, p) ==
    /\ popup' = [p EXCEPT !.op = op, !.prevOp = popup.op]
    /\ UNCHANGED <<verbose_, hasCompileArgsFn, dbArgs, fileTimes,
                   translationUnits_, nextTu, parsedFor, disposeCount, lastOp,
                   teardown, other>>

CanShow == popup.nextRegistration <= MaxShows

ShowProgress(position) ==
    /\ CanShow
    /\ PanelStep("showProgress", Show(SetText(popup), position))

ShowErrorMessage(position) ==
    /\ CanShow
    /\ PanelStep("showErrorMessage", Show(SetText(popup), position))

\* a new CompletionList becomes list_ and, inside container_, the widget
ShowCompletionValues(position) ==
    /\ CanShow
    /\ PanelStep("showCompletionValues",
                 Show([popup EXCEPT !.list_ = TRUE, !.widget = "values"],
                      position))

HidePanel == PanelStep("hide", Hide(popup))

ClearCompletions == PanelStep("clearCompletions", [popup EXCEPT !.list_ = FALSE])

PlaceOffscreen == PanelStep("placeOffscreen", [popup EXCEPT !.offscreen = TRUE])

SetHelpVisible(visible) ==
    PanelStep("setHelpVisible", [popup EXCEPT !.help.visible = visible])

\* displayHelp, displayParameterHelp, displayPackageHelp, displayDataHelp
DisplayHelp(hasInfo) ==
    PanelStep("displayHelp",
              IF CompletionListIsOnScreen(popup)
                THEN ResolveHelpPosition(popup, hasInfo)
                ELSE popup)

\* handler_.onPreviewNativeEvent for a key-down of Enter with a modifier:
\* Event calls it once per registration in its list, and it runs hideAll
PreviewModifiedEnter ==
    /\ popup.active # {}
    /\ PanelStep("hideAll", HideAll(popup))

\* the source index plays no part in what the panel does
PopupInit ==
    /\ TeardownInit
    /\ verbose_ = 0
    /\ ~ hasCompileArgsFn

PopupNext ==
    \/ \E position \in Positions : ShowProgress(position)
    \/ \E position \in Positions : ShowErrorMessage(position)
    \/ \E position \in Positions : ShowCompletionValues(position)
    \/ HidePanel
    \/ ClearCompletions
    \/ PlaceOffscreen
    \/ \E visible \in BOOLEAN : SetHelpVisible(visible)
    \/ \E hasInfo \in BOOLEAN : DisplayHelp(hasInfo)
    \/ PreviewModifiedEnter

PopupSpec == PopupInit /\ [][PopupNext]_vars

TypeOK ==
    /\ verbose_ \in VerboseLevels
    /\ DOMAIN translationUnits_ \subseteq Paths
    /\ nextTu \in 1..(MaxUnits + 1)
    /\ other.turn \in {"none", "lead", "handover", "follow"}

(* ---------------------------------------------------------------------- *)
(* Properties                                                              *)
(* ---------------------------------------------------------------------- *)

\* the last operation was getTranslationUnit and its reparse call failed
FailedReparse(o) ==
    /\ o.op = "get"
    /\ o.calls # <<>>
    /\ o.calls[1].fn = "reparse"
    /\ o.calls[1].ret # 0

\* some libclang call of the sequence failed
SomeCallFailed(calls) ==
    \E i \in 1..Len(calls) :
        \/ calls[i].fn = "reparse" /\ calls[i].ret # 0
        \/ calls[i].fn = "parse" /\ calls[i].tu = NULL

\* number of parse and reparse calls in the sequence
ParseReparseCount(calls) ==
    Cardinality({i \in 1..Len(calls) : calls[i].fn \in {"parse", "reparse"}})

\* C1 as stated: after a getTranslationUnit whose reparse failed, the record
\* of the path is still installed with the unit, args and timestamp it had,
\* the unit is not disposed, and a following getTranslationUnit(path, false)
\* with args and mtime equal to the stored ones is a hit on that unit.
C1_FailedReparsePreservesState ==
    FailedReparse(lastOp) =>
        LET f == lastOp.filename
        IN /\ f \in DOMAIN translationUnits_
           /\ translationUnits_[f] = lastOp.before
           /\ disposeCount[lastOp.before.tu] = 0
           /\ (/\ CompileArgs(f) = lastOp.before.compileArgs
               /\ fileTimes[f] = lastOp.before.lastWriteTime)
                 => GetTranslationUnit(translationUnits_, f, FALSE, 0, NULL)
                      = Outcome(translationUnits_, <<>>, lastOp.before.tu)

\* C1 amended: after a getTranslationUnit whose reparse failed, the old unit
\* has been disposed exactly once and no record holds it; the path either has
\* a record with the freshly parsed, undisposed unit and the current mtime,
\* which is the unit returned, or (parse failed too) no record and an empty
\* result.
C1_FailedReparseRebuilds ==
    FailedReparse(lastOp) =>
        LET f == lastOp.filename
            old == lastOp.before.tu
        IN /\ old \in Handles
           /\ disposeCount[old] = 1
           /\ \A p \in DOMAIN translationUnits_ : translationUnits_[p].tu # old
           /\ (f \in DOMAIN translationUnits_) <=> (lastOp.ret # NULL)
           /\ f \in DOMAIN translationUnits_ =>
                 /\ translationUnits_[f].tu = lastOp.ret
                 /\ translationUnits_[f].lastWriteTime = fileTimes[f]
                 /\ disposeCount[lastOp.ret] = 0

\* a failed reparse was followed by a successful parse: the path has a new unit
C1_Witness ==
    /\ FailedReparse(lastOp)
    /\ lastOp.ret # NULL
    /\ lastOp.ret # lastOp.before.tu
    /\ lastOp.filename \in DOMAIN translationUnits_

\* C2 as stated: a getTranslationUnit whose reparse failed returns an empty
\* TranslationUnit and the failed reparse is its only libclang call.
C2_NoAutomaticRetry ==
    FailedReparse(lastOp) =>
        /\ lastOp.ret = NULL
        /\ Len(lastOp.calls) = 1

\* C2 amended: a getTranslationUnit whose reparse failed issues exactly three
\* libclang calls, in this order: the failed reparse of the stored unit, the
\* dispose of that unit, and one parse of the file; it returns what parse
\* returned (empty exactly when parse returns NULL).
C2_FailedReparseFallsBackToParse ==
    FailedReparse(lastOp) =>
        /\ Len(lastOp.calls) = 3
        /\ lastOp.calls[1].tu = lastOp.before.tu
        /\ lastOp.calls[2] = DisposeCall(lastOp.before.tu)
        /\ lastOp.calls[3].fn = "parse"
        /\ lastOp.calls[3].file = lastOp.filename
        /\ lastOp.ret = lastOp.calls[3].tu

\* a failed reparse was followed by a failed parse: the call returned empty
C2_Witness ==
    /\ FailedReparse(lastOp)
    /\ lastOp.ret = NULL
    /\ lastOp.calls[Len(lastOp.calls)].fn = "parse"

\* C3: two consecutive getTranslationUnit(path, false) calls with no change
\* of the provider's args or of the file's mtime in between issue at most one
\* parse/reparse call in total and the second is a pure hit on the unit the
\* first returned, at every verbosity level.  (Stated for a first call in
\* which no libclang call failed.)
C3_IdempotentHit ==
    [][(/\ lastOp.op = "get" /\ ~ lastOp.alwaysReparse
        /\ lastOp'.op = "get" /\ ~ lastOp'.alwaysReparse
        /\ lastOp'.filename = lastOp.filename
        /\ lastOp.ret # NULL
        /\ ~ SomeCallFailed(lastOp.calls))
          => /\ lastOp'.calls = <<>>
             /\ lastOp'.ret = lastOp.ret
             /\ ParseReparseCount(lastOp.calls)
                  + ParseReparseCount(lastOp'.calls) <= 1]_vars

\* C4: a getTranslationUnit(path, false) on a record whose compile args equal
\* the provider's non-empty args and whose write time equals the file's mtime
\* returns the record's unit, issues no libclang call and changes no record.
C4_HitIsReadOnly ==
    [][(/\ lastOp'.op = "get" /\ ~ lastOp'.alwaysReparse
        /\ lastOp'.filename \in DOMAIN translationUnits_
        /\ hasCompileArgsFn
        /\ dbArgs[lastOp'.filename] # <<>>
        /\ dbArgs[lastOp'.filename]
             = translationUnits_[lastOp'.filename].compileArgs
        /\ fileTimes[lastOp'.filename]
             = translationUnits_[lastOp'.filename].lastWriteTime)
          => /\ lastOp'.ret = translationUnits_[lastOp'.filename].tu
             /\ lastOp'.ret # NULL
             /\ lastOp'.calls = <<>>
             /\ translationUnits_' = translationUnits_
             /\ disposeCount' = disposeCount
             /\ parsedFor' = parsedFor]_vars

\* a getTranslationUnit(path, false) found its record up to date
C4_Witness ==
    /\ lastOp.op = "get" /\ ~ lastOp.alwaysReparse
    /\ hasCompileArgsFn
    /\ lastOp.before # NoRecord
    /\ dbArgs[lastOp.filename] = lastOp.before.compileArgs
    /\ fileTimes[lastOp.filename] = lastOp.before.lastWriteTime
    /\ lastOp.ret = lastOp.before.tu

\* C5: a getTranslationUnit (any alwaysReparse, any mtime) on a record whose
\* compile args differ, as a sequence, from the provider's non-empty args
\* issues no reparse: it disposes the record's unit and then parses the file.
C5_ArgChangeForcesRebuild ==
    (/\ lastOp.op = "get"
     /\ lastOp.before # NoRecord
     /\ hasCompileArgsFn
     /\ dbArgs[lastOp.filename] # <<>>
     /\ dbArgs[lastOp.filename] # lastOp.before.compileArgs)
       => /\ Len(lastOp.calls) = 2
          /\ lastOp.calls[1] = DisposeCall(lastOp.before.tu)
          /\ lastOp.calls[2].fn = "parse"
          /\ lastOp.calls[2].file = lastOp.filename

\* the provider's args were a reordering of the stored ones and the unit was
\* rebuilt
C5_Witness ==
    /\ lastOp.op = "get"
    /\ hasCompileArgsFn
    /\ lastOp.before.compileArgs = <<"-I", "-D">>
    /\ dbArgs[lastOp.filename] = <<"-D", "-I">>
    /\ Len(lastOp.calls) = 2
    /\ lastOp.ret # NULL

\* getTranslationUnit(path, false) on a record with the provider's args and a
\* write time different from the file's mtime
StaleByTime(o) ==
    /\ o.op = "get" /\ ~ o.alwaysReparse
    /\ o.before # NoRecord
    /\ ~ NotIndexable(CompileArgs(o.filename))
    /\ CompileArgs(o.filename) = o.before.compileArgs
    /\ fileTimes[o.filename] # o.before.lastWriteTime

\* C6 as stated: such a call issues exactly one reparse and no dispose or
\* parse, and after a successful reparse the stored write time is the mtime.
C6_TimestampChangeReparsesOnly ==
    StaleByTime(lastOp) =>
        /\ Len(lastOp.calls) = 1
        /\ lastOp.calls[1].fn = "reparse"
        /\ lastOp.calls[1].ret = 0 =>
              translationUnits_[lastOp.filename].lastWriteTime
                = fileTimes[lastOp.filename]

\* C6 amended: such a call issues exactly one reparse, first, on the record's
\* unit; if it succeeds there is no dispose or parse, the record keeps its
\* unit and args with the write time set to the mtime, and that unit is
\* returned; if it fails the call goes on to dispose the unit and parse.
C6_TimestampChangeReparsesFirst ==
    StaleByTime(lastOp) =>
        /\ lastOp.calls # <<>>
        /\ lastOp.calls[1].fn = "reparse"
        /\ lastOp.calls[1].tu = lastOp.before.tu
        /\ \A i \in 2..Len(lastOp.calls) : lastOp.calls[i].fn # "reparse"
        /\ lastOp.calls[1].ret = 0 =>
              /\ Len(lastOp.calls) = 1
              /\ lastOp.ret = lastOp.before.tu
              /\ translationUnits_[lastOp.filename]
                   = [lastOp.before EXCEPT
                         !.lastWriteTime = fileTimes[lastOp.filename]]
        /\ lastOp.calls[1].ret # 0 =>
              /\ Len(lastOp.calls) = 3
              /\ lastOp.calls[2] = DisposeCall(lastOp.before.tu)
              /\ lastOp.calls[3].fn = "parse"

\* a changed mtime was answered by a successful reparse
C6_Witness ==
    /\ StaleByTime(lastOp)
    /\ lastOp.calls[1].ret = 0
    /\ translationUnits_[lastOp.filename].lastWriteTime
         # lastOp.before.lastWriteTime

\* getTranslationUnit(path, true) on a record that is up to date
ForcedOnFresh(o) ==
    /\ o.op = "get" /\ o.alwaysReparse
    /\ o.before # NoRecord
    /\ ~ NotIndexable(CompileArgs(o.filename))
    /\ CompileArgs(o.filename) = o.before.compileArgs
    /\ fileTimes[o.filename] = o.before.lastWriteTime

\* C7: getTranslationUnit(path, true) with args and mtime identical to the
\* stored ones still issues a reparse on the record's unit.
C7_ForceOverridesFreshness ==
    ForcedOnFresh(lastOp) =>
        /\ lastOp.calls # <<>>
        /\ lastOp.calls[1].fn = "reparse"
        /\ lastOp.calls[1].tu = lastOp.before.tu

\* a forced call on an up-to-date record reparsed it successfully
C7_Witness ==
    /\ ForcedOnFresh(lastOp)
    /\ lastOp.calls[1].ret = 0
    /\ lastOp.ret = lastOp.before.tu

\* libclang's bookkeeping in the current state
Lib == [parsedFor |-> parsedFor, disposeCount |-> disposeCount]

\* units parsed for file and not yet disposed
LiveUnits(lib, file) ==
    {h \in Handles : lib.parsedFor[h] = file /\ lib.disposeCount[h] = 0}

\* C8: after each libclang call of every operation (so also between the
\* calls of one operation and between operations; before the first call
\* nothing is live), at most one unit parsed for a given path has not been
\* disposed.
C8_AtMostOneLiveUnitPerPath ==
    [][\A k \in 1..Len(lastOp'.calls) :
          \A lib \in {ApplyCalls(Lib, SubSeq(lastOp'.calls, 1, k))} :
             \A f \in Paths : Cardinality(LiveUnits(lib, f)) <= 1]_vars

\* a rebuild: the path's old unit was disposed and a new one parsed for it
C8_Witness ==
    /\ Len(lastOp.calls) >= 2
    /\ lastOp.calls[Len(lastOp.calls) - 1].fn = "dispose"
    /\ lastOp.calls[Len(lastOp.calls)].fn = "parse"
    /\ lastOp.ret # NULL
    /\ parsedFor[lastOp.calls[Len(lastOp.calls) - 1].tu] = lastOp.filename
    /\ LiveUnits(Lib, lastOp.filename) = {lastOp.ret}

\* C9: every dispose call is on a handle that parse returned earlier and that
\* has not been disposed before.
C9_NoDoubleDispose ==
    [][\A k \in 1..Len(lastOp'.calls) :
          lastOp'.calls[k].fn = "dispose" =>
             \A lib \in {ApplyCalls(Lib, SubSeq(lastOp'.calls, 1, k - 1))} :
                /\ lastOp'.calls[k].tu \in Handles
                /\ lib.parsedFor[lastOp'.calls[k].tu] # ""
                /\ lib.disposeCount[lastOp'.calls[k].tu] = 0]_vars

\* a path whose unit was disposed is removed again, without a second dispose
C9_Witness ==
    /\ lastOp.op \in {"remove", "removeAll"}
    /\ lastOp.calls = <<>>
    /\ \E h \in Handles : disposeCount[h] = 1

\* C10: when the provider returns no arguments for the path,
\* getTranslationUnit (any alwaysReparse) returns empty, issues no libclang
\* call and leaves every record, the path's own included, as it was.
C10_UnindexableShortCircuit ==
    [][(/\ lastOp'.op = "get"
        /\ hasCompileArgsFn
        /\ dbArgs[lastOp'.filename] = <<>>)
          => /\ lastOp'.ret = NULL
             /\ lastOp'.calls = <<>>
             /\ translationUnits_' = translationUnits_
             /\ disposeCount' = disposeCount
             /\ parsedFor' = parsedFor]_vars

\* a forced call on a path that has a record and no arguments any more
C10_Witness ==
    /\ lastOp.op = "get" /\ lastOp.alwaysReparse
    /\ hasCompileArgsFn
    /\ dbArgs[lastOp.filename] = <<>>
    /\ lastOp.filename \in DOMAIN translationUnits_
    /\ translationUnits_[lastOp.filename] = lastOp.before
    /\ lastOp.ret = NULL

\* getTranslationUnit on a file that cannot be stat'ed and that the provider
\* has arguments for
Unreadable(o) ==
    /\ o.op = "get"
    /\ fileTimes[o.filename] = NoTime
    /\ ~ NotIndexable(CompileArgs(o.filename))

\* C11 as stated: getTranslationUnit on a file that cannot be stat'ed returns
\* empty, issues no libclang call and neither creates, alters nor removes the
\* record of the path.
C11_UnreadableShortCircuit ==
    (lastOp.op = "get" /\ fileTimes[lastOp.filename] = NoTime) =>
        /\ lastOp.ret = NULL
        /\ lastOp.calls = <<>>
        /\ RecordOf(translationUnits_, lastOp.filename) = lastOp.before

\* C11 amended: a file that cannot be stat'ed does not short-circuit; the value
\* lastWriteTime yields is used as the mtime of the normal decision.  With no
\* record the call issues exactly one parse and, if it succeeds, installs and
\* returns a record stamped with that value; with a record that is not up to
\* date at that value (or with alwaysReparse) the first libclang call is on
\* the record's unit.
C11_UnreadableTakesNormalPath ==
    Unreadable(lastOp) =>
        /\ lastOp.before = NoRecord =>
              /\ Len(lastOp.calls) = 1
              /\ lastOp.calls[1].fn = "parse"
              /\ lastOp.calls[1].file = lastOp.filename
              /\ lastOp.ret = lastOp.calls[1].tu
              /\ lastOp.ret # NULL =>
                    /\ lastOp.filename \in DOMAIN translationUnits_
                    /\ translationUnits_[lastOp.filename].tu = lastOp.ret
                    /\ translationUnits_[lastOp.filename].lastWriteTime = NoTime
        /\ (/\ lastOp.before # NoRecord
            /\ \/ lastOp.alwaysReparse
               \/ CompileArgs(lastOp.filename) # lastOp.before.compileArgs
               \/ lastOp.before.lastWriteTime # NoTime) =>
              /\ lastOp.calls # <<>>
              /\ lastOp.calls[1].fn \in {"reparse", "dispose"}
              /\ lastOp.calls[1].tu = lastOp.before.tu

\* a record was created for a file that cannot be stat'ed
C11_Witness ==
    /\ Unreadable(lastOp)
    /\ lastOp.before = NoRecord
    /\ lastOp.ret # NULL
    /\ translationUnits_[lastOp.filename].lastWriteTime = NoTime

\* getTranslationUnit reached parseTranslationUnit and it returned NULL
FailedParse(o) ==
    /\ o.op = "get"
    /\ o.calls # <<>>
    /\ o.calls[Len(o.calls)].fn = "parse"
    /\ o.calls[Len(o.calls)].tu = NULL

\* C12: when the full build's parse returns NULL the call returns empty, the
\* path has no record afterwards, and the unit the path had before the call
\* has been disposed exactly once and is held by no record.
C12_FailedRebuildLeavesUncached ==
    FailedParse(lastOp) =>
        /\ lastOp.ret = NULL
        /\ lastOp.filename \notin DOMAIN translationUnits_
        /\ lastOp.before # NoRecord =>
              /\ disposeCount[lastOp.before.tu] = 1
              /\ \A p \in DOMAIN translationUnits_ :
                    translationUnits_[p].tu # lastOp.before.tu

\* a rebuild of a path that had a record failed in parse
C12_Witness ==
    /\ FailedParse(lastOp)
    /\ lastOp.before # NoRecord
    /\ lastOp.calls[1].fn = "dispose"
    /\ lastOp.filename \notin DOMAIN translationUnits_

\* getTranslationUnit reached parseTranslationUnit and it returned a unit
SucceededParse(o) ==
    /\ o.op = "get"
    /\ o.calls # <<>>
    /\ o.calls[Len(o.calls)].fn = "parse"
    /\ o.calls[Len(o.calls)].tu # NULL

\* C13: after a successful full build, at every verbosity level, the record
\* of the path holds exactly the provider's argument sequence, the mtime
\* observed by the call and the unit parse returned, which is the unit
\* returned.
C13_InstalledRecordMatchesInputs ==
    SucceededParse(lastOp) =>
        /\ lastOp.filename \in DOMAIN translationUnits_
        /\ translationUnits_[lastOp.filename]
             = StoredTranslationUnit(CompileArgs(lastOp.filename),
                                     fileTimes[lastOp.filename],
                                     lastOp.calls[Len(lastOp.calls)].tu)
        /\ lastOp.ret = translationUnits_[lastOp.filename].tu

\* C14: removeTranslationUnit(path) on a path with a record issues exactly one
\* dispose, on that record's unit, removes that record and leaves all others
\* as they were; on a path without a record it issues no libclang call and
\* leaves the map as it was.
C14_RemoveTranslationUnit ==
    [][lastOp'.op = "remove" =>
         IF lastOp'.filename \in DOMAIN translationUnits_
           THEN /\ lastOp'.calls
                     = <<DisposeCall(translationUnits_[lastOp'.filename].tu)>>
                /\ DOMAIN translationUnits_'
                     = (DOMAIN translationUnits_) \ {lastOp'.filename}
                /\ \A p \in DOMAIN translationUnits_' :
                      translationUnits_'[p] = translationUnits_[p]
           ELSE /\ lastOp'.calls = <<>>
                /\ translationUnits_' = translationUnits_
                /\ disposeCount' = disposeCount]_vars

\* a record was removed while another path kept its record
C14_Witness ==
    /\ lastOp.op = "remove"
    /\ lastOp.before # NoRecord
    /\ lastOp.calls = <<DisposeCall(lastOp.before.tu)>>
    /\ disposeCount[lastOp.before.tu] = 1
    /\ lastOp.filename \notin DOMAIN translationUnits_
    /\ translationUnits_ # EmptyMap

\* C15: removeAllTranslationUnits leaves no record, disposes the unit of every
\* record exactly once and lets no exception escape, also when a libclang
\* dispose call throws; a destructor run that follows it disposes none of
\* those units again and lets no exception escape either.
C15_TeardownSafety ==
    [][/\ lastOp'.op = "removeAll" =>
            /\ translationUnits_' = EmptyMap
            /\ ~ teardown'.raised
            /\ \A p \in DOMAIN translationUnits_ :
                  disposeCount'[translationUnits_[p].tu]
                    = disposeCount[translationUnits_[p].tu] + 1
       /\ (lastOp.op = "removeAll" /\ lastOp'.op = "destroy") =>
            /\ ~ teardown'.raised
            /\ disposeCount' = disposeCount
            /\ \A h \in Handles : disposeCount'[h] <= 1]_vars

\* C16 as stated: primeEditorTranslationUnit(path) is a no-op when the path has
\* a record, and when it has none it does a full build: one parse of the
\* file, whose unit, if any, is installed as the path's record.
C16_PrimeBuildsWhenAbsent ==
    [][lastOp'.op = "prime" =>
         IF lastOp'.filename \in DOMAIN translationUnits_
           THEN /\ lastOp'.calls = <<>>
                /\ translationUnits_' = translationUnits_
           ELSE /\ Len(lastOp'.calls) = 1
                /\ lastOp'.calls[1].fn = "parse"]_vars

\* C16 amended: primeEditorTranslationUnit(path) is a no-op when the path has
\* a record, stale or not; when it has none it does what
\* getTranslationUnit(path, false) does: nothing if the provider returns no
\* arguments, otherwise one parse of the file, whose unit, if any, becomes the
\* path's record stamped with the file's mtime, all other records unchanged.
C16_PrimeIsGetWhenAbsent ==
    [][lastOp'.op = "prime" =>
         IF \/ lastOp'.filename \in DOMAIN translationUnits_
            \/ NotIndexable(CompileArgs(lastOp'.filename))
           THEN /\ lastOp'.calls = <<>>
                /\ translationUnits_' = translationUnits_
                /\ disposeCount' = disposeCount
                /\ parsedFor' = parsedFor
           ELSE /\ Len(lastOp'.calls) = 1
                /\ lastOp'.calls[1].fn = "parse"
                /\ lastOp'.calls[1].file = lastOp'.filename
                /\ \A p \in DOMAIN translationUnits_ :
                      /\ p \in DOMAIN translationUnits_'
                      /\ translationUnits_'[p] = translationUnits_[p]
                /\ IF lastOp'.calls[1].tu = NULL
                     THEN translationUnits_' = translationUnits_
                     ELSE /\ DOMAIN translationUnits_'
                               = DOMAIN translationUnits_ \cup {lastOp'.filename}
                          /\ translationUnits_'[lastOp'.filename].tu
                               = lastOp'.calls[1].tu
                          /\ translationUnits_'[lastOp'.filename].lastWriteTime
                               = fileTimes[lastOp'.filename]]_vars

\* primeEditorTranslationUnit left a record alone whose write time is not the
\* file's mtime
C16_Witness ==
    /\ lastOp.op = "prime"
    /\ lastOp.before # NoRecord
    /\ lastOp.before.lastWriteTime # fileTimes[lastOp.filename]
    /\ translationUnits_[lastOp.filename] = lastOp.before
    /\ lastOp.calls = <<>>

\* C17: reprimeEditorTranslationUnit(path) on a path without a record issues
\* no libclang call and changes nothing; it never adds a path to the map; on
\* a path with a record it does what getTranslationUnit(path, false) does.
C17_ReprimeNeverCreates ==
    [][lastOp'.op = "reprime" =>
         /\ DOMAIN translationUnits_' \subseteq DOMAIN translationUnits_
         /\ IF lastOp'.filename \notin DOMAIN translationUnits_
              THEN /\ lastOp'.calls = <<>>
                   /\ translationUnits_' = translationUnits_
                   /\ disposeCount' = disposeCount
                   /\ parsedFor' = parsedFor
              ELSE \E r \in {0, 1}, t \in ParseRets :
                      /\ translationUnits_'
                           = GetTranslationUnit(translationUnits_,
                                                lastOp'.filename, FALSE,
                                                r, t).tus
                      /\ lastOp'.calls
                           = GetTranslationUnit(translationUnits_,
                                                lastOp'.filename, FALSE,
                                                r, t).calls]_vars

\* reprimeEditorTranslationUnit on a file that has arguments but no record
C17_Witness ==
    /\ lastOp.op = "reprime"
    /\ lastOp.before = NoRecord
    /\ ~ NotIndexable(CompileArgs(lastOp.filename))
    /\ lastOp.filename \notin DOMAIN translationUnits_
    /\ lastOp.calls = <<>>

\* C18: getTranslationUnit, prime, reprime and removeTranslationUnit on one
\* path leave the set of other paths with a record and each of their records
\* as they were, and pass none of their units to reparse or dispose.
C18_RecordsAreIndependent ==
    [][lastOp'.op \in {"get", "prime", "reprime", "remove"} =>
         \A q \in Paths \ {lastOp'.filename} :
            /\ (q \in DOMAIN translationUnits_')
                 <=> (q \in DOMAIN translationUnits_)
            /\ q \in DOMAIN translationUnits_ =>
                  /\ translationUnits_'[q] = translationUnits_[q]
                  /\ disposeCount'[translationUnits_[q].tu]
                       = disposeCount[translationUnits_[q].tu]
                  /\ \A i \in 1..Len(lastOp'.calls) :
                        lastOp'.calls[i].fn \in {"reparse", "dispose"}
                          => lastOp'.calls[i].tu # translationUnits_[q].tu]_vars

\* a failed reparse rebuilt one path while another path kept its record
C18_Witness ==
    /\ FailedReparse(lastOp)
    /\ Len(lastOp.calls) = 3
    /\ \E q \in DOMAIN translationUnits_ :
          /\ q # lastOp.filename
          /\ disposeCount[translationUnits_[q].tu] = 0

\* C19: with the stored args and alwaysReparse false, any mtime other than the
\* stored write time, an older one included, makes the first libclang call a
\* reparse of the record's unit; the call is a hit only at the stored time.
C19_TimestampComparedForEquality ==
    (/\ lastOp.op = "get" /\ ~ lastOp.alwaysReparse
     /\ lastOp.before # NoRecord
     /\ ~ NotIndexable(CompileArgs(lastOp.filename))
     /\ CompileArgs(lastOp.filename) = lastOp.before.compileArgs)
       => IF fileTimes[lastOp.filename] = lastOp.before.lastWriteTime
            THEN lastOp.calls = <<>> /\ lastOp.ret = lastOp.before.tu
            ELSE /\ lastOp.calls # <<>>
                 /\ lastOp.calls[1].fn = "reparse"
                 /\ lastOp.calls[1].tu = lastOp.before.tu

\* the file's mtime was set back and the record was reparsed
C19_Witness ==
    /\ lastOp.op = "get" /\ ~ lastOp.alwaysReparse
    /\ lastOp.before # NoRecord
    /\ CompileArgs(lastOp.filename) = lastOp.before.compileArgs
    /\ fileTimes[lastOp.filename] # NoTime
    /\ fileTimes[lastOp.filename] < lastOp.before.lastWriteTime
    /\ lastOp.calls[1].fn = "reparse"

\* C20: two SourceIndex objects that differ in verbose_ only and were given
\* the same calls, compilation database answers, file times and libclang
\* results made the same libclang calls on the same units in their last call
\* and both returned a unit or both returned none.
C20_VerbosityIsSideChannelOnly ==
    (other.turn = "lead" /\ lastOp.op # "none") =>
        /\ Len(lastOp.calls) = Len(other.lastOp.calls)
        /\ \A i \in 1..Len(lastOp.calls) :
              /\ lastOp.calls[i].fn = other.lastOp.calls[i].fn
              /\ lastOp.calls[i].fn \in {"reparse", "dispose"}
                    => lastOp.calls[i].tu = other.lastOp.calls[i].tu
              /\ lastOp.calls[i].fn = "parse"
                    => /\ lastOp.calls[i].file = other.lastOp.calls[i].file
                       /\ (lastOp.calls[i].tu = NULL)
                            <=> (other.lastOp.calls[i].tu = NULL)
        /\ (lastOp.ret = NULL) <=> (other.lastOp.ret = NULL)

\* the libclang calls that take a translation unit
UnitCalls == {"parse", "reparse", "dispose"}

\* C21: in a run of the destructor every call on a translation unit comes
\* before disposeIndex, the first run disposes the unit of every record before
\* it disposes the index, and once the index has been disposed no operation
\* parses, reparses or disposes a unit.
C21_TeardownOrdering ==
    [][/\ lastOp'.op = "destroy" =>
            \A i \in 1..Len(lastOp'.calls) :
               lastOp'.calls[i].fn = "disposeIndex" =>
                  /\ \A j \in 1..Len(lastOp'.calls) :
                        lastOp'.calls[j].fn \in UnitCalls => j < i
                  /\ ~ teardown.destroyed =>
                        \A p \in DOMAIN translationUnits_ :
                           \E j \in 1..(i - 1) :
                              lastOp'.calls[j]
                                = DisposeCall(translationUnits_[p].tu)
       /\ teardown.indexDisposeCount > 0 =>
            /\ \A i \in 1..Len(lastOp'.calls) :
                  lastOp'.calls[i].fn \notin UnitCalls
            /\ disposeCount' = disposeCount
            /\ parsedFor' = parsedFor]_vars

\* the destructor disposed the units of two records and then the index
C21_Witness ==
    /\ lastOp.op = "destroy"
    /\ Len(lastOp.calls) = 3
    /\ lastOp.calls[1].fn = "dispose"
    /\ lastOp.calls[2].fn = "dispose"
    /\ lastOp.calls[3] = DisposeIndexCall(teardown.index_)
    /\ teardown.indexDisposeCount = 1

\* C22: a second run of the destructor on the same object passes neither a
\* unit nor the index to a dispose call that was already passed to one.
C22_SecondDestroyDisposesNothingAgain ==
    [][(teardown.destroys >= 1 /\ teardown'.destroys = teardown.destroys + 1)
         => /\ teardown'.indexDisposeCount <= 1
            /\ \A h \in Handles :
                  disposeCount'[h] > disposeCount[h] => disposeCount'[h] = 1]_vars

\* C23: rSourceIndex() constructs one RSourceIndex, on its first call, and
\* returns that object on every call; the object is never destroyed, at exit
\* neither: its index is never disposed and the destructor never runs.
C23_ProcessWideSingleton ==
    [][/\ teardown'.constructed <= 1
       /\ teardown'.instance # NULL =>
             /\ teardown'.constructed = 1
             /\ teardown'.instance = teardown'.s_pRSourceIndex
       /\ teardown.s_pRSourceIndex # NULL =>
             /\ teardown'.s_pRSourceIndex = teardown.s_pRSourceIndex
             /\ teardown'.constructed = teardown.constructed
       /\ teardown'.destroys = 0
       /\ ~ teardown'.destroyed
       /\ teardown'.indexDisposeCount = 0
       /\ lastOp'.op # "destroy"
       /\ teardown'.exited =>
             /\ disposeCount' = disposeCount
             /\ translationUnits_' = translationUnits_]_vars

\* the session exited with two records in the singleton's map; their units
\* and the index were left undisposed
C23_Witness ==
    /\ teardown.exited
    /\ teardown.constructed = 1
    /\ teardown.instance = teardown.s_pRSourceIndex
    /\ Cardinality(DOMAIN translationUnits_) = 2
    /\ \A p \in DOMAIN translationUnits_ :
          disposeCount[translationUnits_[p].tu] = 0
    /\ teardown.indexDisposeCount = 0

\* the unit handles held in records
HeldUnits == {translationUnits_[p].tu : p \in DOMAIN translationUnits_}

\* C24: between operations the handles held in records are exactly the
\* handles a successful parse returned and no dispose call was given, no
\* two records hold the same handle, and each record's unit was parsed for
\* the record's own path.
C24_NoLeakNoDanglingRecord ==
    /\ HeldUnits = {h \in Handles : parsedFor[h] # "" /\ disposeCount[h] = 0}
    /\ Cardinality(HeldUnits) = Cardinality(DOMAIN translationUnits_)
    /\ \A p \in DOMAIN translationUnits_ :
          parsedFor[translationUnits_[p].tu] = p

\* a reparse and the parse after it both failed: the path lost its record and
\* its unit was disposed, while another path still holds a live unit
C24_Witness ==
    /\ FailedReparse(lastOp)
    /\ lastOp.ret = NULL
    /\ disposeCount[lastOp.before.tu] = 1
    /\ lastOp.filename \notin DOMAIN translationUnits_
    /\ translationUnits_ # EmptyMap

\* C25: when getTranslationUnit returns a unit, the path has a record at that
\* moment, the returned unit is the record's unit and it has not been
\* disposed; and no operation calls reparse on a unit that was disposed.
C25_ReturnedHandleIsLive ==
    [][/\ (lastOp'.op = "get" /\ lastOp'.ret # NULL) =>
             /\ lastOp'.filename \in DOMAIN translationUnits_'
             /\ translationUnits_'[lastOp'.filename].tu = lastOp'.ret
             /\ parsedFor'[lastOp'.ret] = lastOp'.filename
             /\ disposeCount'[lastOp'.ret] = 0
       /\ \A k \in 1..Len(lastOp'.calls) :
             lastOp'.calls[k].fn = "reparse" =>
                \A lib \in {ApplyCalls(Lib, SubSeq(lastOp'.calls, 1, k - 1))} :
                   /\ lib.parsedFor[lastOp'.calls[k].tu] # ""
                   /\ lib.disposeCount[lastOp'.calls[k].tu] = 0]_vars

\* a reparse failed, the unit was disposed, and the unit of the rebuild was
\* returned
C25_Witness ==
    /\ FailedReparse(lastOp)
    /\ lastOp.ret # NULL
    /\ lastOp.ret # lastOp.before.tu
    /\ disposeCount[lastOp.before.tu] = 1
    /\ translationUnits_[lastOp.filename].tu = lastOp.ret

\* C26: without a compile-args callback getTranslationUnit never returns
\* early: with the empty vector as args it answers from the record when the
\* record is up to date, reparses when the record's args are empty too,
\* and otherwise builds, parsing with the empty vector (plus "-v" at
\* verbosity 2) and storing it in the record it installs.
C26_NoProviderIsNotUnindexable ==
    (lastOp.op = "get" /\ ~ hasCompileArgsFn) =>
        IF lastOp.before = NoRecord
          THEN /\ Len(lastOp.calls) = 1
               /\ lastOp.calls[1]
                    = ParseCall(lastOp.filename, VerboseArgs(<<>>), lastOp.ret)
               /\ lastOp.ret # NULL =>
                     translationUnits_[lastOp.filename]
                       = StoredTranslationUnit(VerboseArgs(<<>>),
                                               fileTimes[lastOp.filename],
                                               lastOp.ret)
        ELSE IF UpToDate(lastOp.alwaysReparse, <<>>,
                         fileTimes[lastOp.filename], lastOp.before)
          THEN lastOp.calls = <<>> /\ lastOp.ret = lastOp.before.tu
        ELSE IF lastOp.before.compileArgs = <<>>
          THEN /\ lastOp.calls # <<>>
               /\ lastOp.calls[1].fn = "reparse"
               /\ lastOp.calls[1].tu = lastOp.before.tu
        ELSE /\ Len(lastOp.calls) = 2
             /\ lastOp.calls[1] = DisposeCall(lastOp.before.tu)
             /\ lastOp.calls[2].fn = "parse"
             /\ lastOp.calls[2].args = VerboseArgs(<<>>)

\* without a callback a file was parsed with no arguments and its record
\* holds the empty vector
C26_Witness ==
    /\ lastOp.op = "get" /\ ~ hasCompileArgsFn
    /\ lastOp.before = NoRecord
    /\ lastOp.calls = <<ParseCall(lastOp.filename, <<>>, lastOp.ret)>>
    /\ lastOp.ret # NULL
    /\ translationUnits_[lastOp.filename].compileArgs = <<>>

\* the show operations of the panel
ShowOps == {"showProgress", "showErrorMessage", "showCompletionValues"}

\* C27: at most one registration made by the panel is in Event's list of
\* native preview handlers; after a show operation it is the one the panel
\* holds, and after hide() there is none.
C27_AtMostOneNativeHandler ==
    /\ Cardinality(popup.active) <= 1
    /\ popup.op \in ShowOps => popup.active = {popup.handlerRegistration_}
    /\ popup.op = "hide" => popup.active = {}

\* the panel was shown twice in a row, with no hide() in between
C27_Witness ==
    /\ popup.prevOp = "showProgress"
    /\ popup.op = "showCompletionValues"
    /\ popup.handlerRegistration_ = 2
    /\ popup.active = {2}
    /\ popup.showing

====
